---------------------------- MODULE Spec2Model ----------------------------
(***************************************************************************)
(* A model of coast_guard: the configuration manager (config.py), the      *)
(* database access layer (database/__init__.py) and the header correction  *)
(* tool (correct.py).  Each component has its own specification; the       *)
(* variables of the other components stay at their idle values.            *)
(*                                                                         *)
(* Python strings are modelled as sequences of one-character strings, so   *)
(* that prefixes, suffixes, slices and case folding are computed.          *)
(***************************************************************************)
EXTENDS Integers, Sequences, FiniteSets, TLC

VARIABLES
    \* ---- config.py: CoastGuardConfigs ----
    fs,             \* the configuration files that exist (os.path.isfile)
    config_dicts,   \* self.config_dicts: filename stem -> ConfigDict
    configs,        \* self.configs: the merged ConfigDict
    loads,          \* history: the files read_file loaded, in order
    cfgOps,         \* history: the operations called and how each ended
    \* ---- database/__init__.py: the engine cache ----
    engines,        \* __engines: URL -> engine
    listeners,      \* engine -> the event listeners registered on it, in order
    constructed,    \* history: the engines sa.create_engine made, in order
    returned,       \* history: the calls of get_engine that returned
    debugOn,        \* config.debug.is_on('database')
    thr,            \* the threads inside get_engine: position and locals
    \* ---- database/__init__.py: Database.transaction ----
    txConns,        \* the connections checked out, each with its events
    txScopes,       \* the with-scopes of transaction(), in order of entry
    txStack,        \* the scopes entered and not yet left, innermost last
    txPending,      \* an error raised in a scope is propagating
    \* ---- database/__init__.py: fancy_getitem ----
    rowKeys,        \* self.keys(): the column names of the row, in order
    rowKey,         \* the key looked up
    rowResult,      \* what the lookup returned or raised
    \* ---- correct.py: get_obslog_entry ----
    olPc,           \* where the search is: select, scan, done (or idle)
    olArf,          \* arf: source name, local date and UTC second of day
    obslogfns,      \* the sorted log files still to be looked at
    tosearch,       \* the log files selected
    olFile,         \* the position in tosearch of the file being read
    olLines,        \* the number of lines read so far
    olLast,         \* what the last line read was
    check,          \* the candidate flag
    previnfo,       \* the previous valid entry
    logentries,     \* the candidates recorded
    olOutcome,      \* what the search returned or raised
    \* ---- correct.py: correct_header ----
    corPc,          \* where the correction is: call, done (or idle)
    corIn,          \* the archive's header and data, the arguments, the files
    corOut          \* what correct_header returned or raised, and what it ran

cfgVars == <<fs, config_dicts, configs, loads, cfgOps>>

engVars == <<engines, listeners, constructed, returned, debugOn, thr>>

txVars == <<txConns, txScopes, txStack, txPending>>

rowVars == <<rowKeys, rowKey, rowResult>>

olVars == <<olPc, olArf, obslogfns, tosearch, olFile, olLines, olLast,
            check, previnfo, logentries, olOutcome>>

corVars == <<corPc, corIn, corOut>>

vars == <<cfgVars, engVars, txVars, rowVars, olVars, corVars>>

notCfgVars == <<engVars, txVars, rowVars, olVars, corVars>>

notEngVars == <<cfgVars, txVars, rowVars, olVars, corVars>>

notTxVars == <<cfgVars, engVars, rowVars, olVars, corVars>>

notRowVars == <<cfgVars, engVars, txVars, olVars, corVars>>

notOlVars == <<cfgVars, engVars, txVars, rowVars, corVars>>

notCorVars == <<cfgVars, engVars, txVars, rowVars, olVars>>

(***************************************************************************)
(* Strings                                                                 *)
(***************************************************************************)
UpperAlphabet ==
    <<"A","B","C","D","E","F","G","H","I","J","K","L","M",
      "N","O","P","Q","R","S","T","U","V","W","X","Y","Z">>

LowerAlphabet ==
    <<"a","b","c","d","e","f","g","h","i","j","k","l","m",
      "n","o","p","q","r","s","t","u","v","w","x","y","z">>

LowerChar(c) ==
    IF \E i \in DOMAIN UpperAlphabet : UpperAlphabet[i] = c
    THEN LowerAlphabet[CHOOSE i \in DOMAIN UpperAlphabet : UpperAlphabet[i] = c]
    ELSE c

UpperChar(c) ==
    IF \E i \in DOMAIN LowerAlphabet : LowerAlphabet[i] = c
    THEN UpperAlphabet[CHOOSE i \in DOMAIN LowerAlphabet : LowerAlphabet[i] = c]
    ELSE c

\* str.lower() / string.lower(s)
Lower(s) == [i \in DOMAIN s |-> LowerChar(s[i])]

\* str.upper() / string.upper(s)
Upper(s) == [i \in DOMAIN s |-> UpperChar(s[i])]

\* s.startswith(p)
StartsWith(s, p) == Len(p) <= Len(s) /\ SubSeq(s, 1, Len(p)) = p

\* s.endswith(p)
EndsWith(s, p) ==
    Len(p) <= Len(s) /\ SubSeq(s, Len(s) - Len(p) + 1, Len(s)) = p

\* s[:-n]
DropLast(s, n) == SubSeq(s, 1, Len(s) - n)

EmptyDict == [k \in {} |-> k]

\* dict.update: the bindings of new replace those of old
DictUpdate(old, new) ==
    [k \in DOMAIN old \cup DOMAIN new |->
        IF k \in DOMAIN new THEN new[k] ELSE old[k]]

(***************************************************************************)
(* config.py                                                               *)
(***************************************************************************)
CfgExt == <<".", "c", "f", "g">>

DefaultBase == <<"d", "e", "f", "a", "u", "l", "t">>

\* os.path.join(base_config_dir, dir, base); dir "" is base_config_dir itself
Path(dir, base) == [dir |-> dir, base |-> base]

\* utils.site_to_telescope: keyed by the lowercased site name
site_to_telescope == (<<"e">> :> <<"E", "f">>) @@ (<<"g">> :> <<"G">>)

\* The archives: the file name and the header fields parse_psrfits_header reads
Archives ==
    { [fn |-> Path("data", <<"o">>), site |-> <<"E">>, rcvr |-> <<"P">>,
       be |-> <<"A">>, name |-> <<"j">>],
      [fn |-> Path("data", <<"o">>), site |-> <<"e">>, rcvr |-> <<"A">>,
       be |-> <<"a">>, name |-> <<"J">>],
      [fn |-> Path("data", <<"q">>), site |-> <<"x">>, rcvr |-> <<"P">>,
       be |-> <<"A">>, name |-> <<"j">>] }

\* The files that may or may not exist under base_config_dir
FilePool ==
    { Path("", DefaultBase \o CfgExt),
      Path("telescopes", <<"e", "f">> \o CfgExt),
      Path("receivers", <<"a">> \o CfgExt),
      Path("backends", <<"a">> \o CfgExt),
      Path("pulsars", <<"J">> \o CfgExt),
      Path("observations", <<"o">> \o CfgExt) }

\* Files that exist in every run: names no archive asks for (the file
\* system is case sensitive), and a file without the .cfg extension
FixedFiles ==
    { Path("pulsars", <<"j">> \o CfgExt),
      Path("receivers", <<"A">> \o CfgExt),
      Path("", <<"n", ".", "t", "x", "t">>) }

\* The paths read_file is called with directly
DirectPaths ==
    { Path("receivers", <<"a">> \o CfgExt),
      Path("", <<"n", ".", "t", "x", "t">>) }

\* The variables a configuration file binds (execfile's local namespace);
\* the value names the file that bound it.
FileKeys(p) ==
    {"x"} \cup (IF p.dir \in {"", "backends", "pulsars"} THEN {"y"} ELSE {})
          \cup (IF p.dir = "" THEN {} ELSE {p.dir})

FileBindings(p) == [k \in FileKeys(p) |-> p]

CfgState(cd, c, l) == [config_dicts |-> cd, configs |-> c, loads |-> l]

CfgOutcome(st, result) == [st |-> st, result |-> result]

\* read_file with the merge reversed: bindings already present are kept
read_file_keeps_old(st, files, fn, required) ==
    IF (required /\ fn \notin files) \/ ~EndsWith(fn.base, CfgExt)
    THEN CfgOutcome(st, "ValueError")
    ELSE LET key == DropLast(fn.base, 4)
         IN  IF fn \notin files
             THEN CfgOutcome(
                    CfgState(DictUpdate(st.config_dicts, key :> EmptyDict),
                             st.configs, st.loads), "IOError")
             ELSE CfgOutcome(
                    CfgState(DictUpdate(st.config_dicts, key :> FileBindings(fn)),
                             DictUpdate(FileBindings(fn), st.configs),
                             Append(st.loads, fn)),
                    "ok")

\* CoastGuardConfigs.read_file(fn, required) on the state st of the object,
\* with the files in files existing
read_file(st, files, fn, required) ==
    IF required /\ fn \notin files
    THEN CfgOutcome(st, "ValueError")
    ELSE IF ~EndsWith(fn.base, CfgExt)
    THEN CfgOutcome(st, "ValueError")
    ELSE LET key == DropLast(fn.base, 4)
             emptied == DictUpdate(st.config_dicts, key :> EmptyDict)
         IN  IF fn \notin files
             THEN \* execfile raises IOError after the entry was reset
                  CfgOutcome(CfgState(emptied, st.configs, st.loads), "IOError")
             ELSE CfgOutcome(
                    CfgState(DictUpdate(st.config_dicts, key :> FileBindings(fn)),
                             DictUpdate(st.configs, FileBindings(fn)),
                             Append(st.loads, fn)),
                    "ok")

\* CoastGuardConfigs.get_default_configs
get_default_configs(st, files) ==
    read_file(st, files, Path("", DefaultBase \o CfgExt), TRUE)

\* The list config_files that get_configs_for_archive builds, given the
\* telescope of the site
ConfigFiles(ar, telescope) ==
    << Path("telescopes", Lower(telescope) \o CfgExt),
       Path("receivers", Lower(ar.rcvr) \o CfgExt),
       Path("backends", Lower(ar.be) \o CfgExt),
       Path("pulsars", Upper(ar.name) \o CfgExt),
       Path("observations", ar.fn.base \o CfgExt) >>

\* for fn in config_files: if os.path.isfile(fn): self.read_file(fn)
RECURSIVE ReadExisting(_, _, _)
ReadExisting(st, files, todo) ==
    IF todo = <<>>
    THEN CfgOutcome(st, "ok")
    ELSE IF Head(todo) \notin files
    THEN ReadExisting(st, files, Tail(todo))
    ELSE LET r == read_file(st, files, Head(todo), FALSE)
         IN  IF r.result = "ok"
             THEN ReadExisting(r.st, files, Tail(todo))
             ELSE r

\* CoastGuardConfigs.get_configs_for_archive(ar)
get_configs_for_archive(st, files, ar) ==
    IF Lower(ar.site) \notin DOMAIN site_to_telescope
    THEN CfgOutcome(st, "KeyError")
    ELSE ReadExisting(st, files,
                      ConfigFiles(ar, site_to_telescope[Lower(ar.site)]))

MaxCfgOps == 3

CfgIdle ==
    /\ fs = {}
    /\ config_dicts = EmptyDict
    /\ configs = EmptyDict
    /\ loads = <<>>
    /\ cfgOps = <<>>

CfgInit ==
    /\ fs \in { FixedFiles \cup some : some \in SUBSET FilePool }
    /\ config_dicts = EmptyDict
    /\ configs = EmptyDict
    /\ loads = <<>>
    /\ cfgOps = <<>>

CfgApply(op, r) ==
    /\ config_dicts' = r.st.config_dicts
    /\ configs' = r.st.configs
    /\ loads' = r.st.loads
    /\ cfgOps' = Append(cfgOps, [call |-> op, result |-> r.result])
    /\ UNCHANGED fs
    /\ UNCHANGED notCfgVars

CfgNow == CfgState(config_dicts, configs, loads)

ReadFile ==
    /\ Len(cfgOps) < MaxCfgOps
    /\ \E fn \in DirectPaths, required \in BOOLEAN :
          CfgApply([op |-> "read_file", fn |-> fn, required |-> required],
                   read_file(CfgNow, fs, fn, required))

GetDefaultConfigs ==
    /\ Len(cfgOps) < MaxCfgOps
    /\ CfgApply([op |-> "get_default_configs"], get_default_configs(CfgNow, fs))

GetConfigsForArchive ==
    /\ Len(cfgOps) < MaxCfgOps
    /\ \E ar \in Archives :
          CfgApply([op |-> "get_configs_for_archive", ar |-> ar],
                   get_configs_for_archive(CfgNow, fs, ar))

CfgNext == ReadFile \/ GetDefaultConfigs \/ GetConfigsForArchive


(***************************************************************************)
(* database/__init__.py: get_engine                                        *)
(***************************************************************************)
\* The URLs get_engine is called with
URLs == {"sqlite:///a.db", "sqlite:///b.db", "mysql://host/c"}

\* config.dburl, used when url is None
dburl == "sqlite:///a.db"

\* engine.name: the dialect the URL names
EngineName(url) == IF url = "mysql://host/c" THEN "mysql" ELSE "sqlite"

\* The engines are objects: the n-th engine constructed is the handle n
NewEngine(made) == Len(made) + 1

\* The sa.event.listen calls of get_engine on a new engine, in order
Listens(url, debug) ==
    (IF EngineName(url) = "sqlite" THEN <<"connect">> ELSE <<>>)
    \o <<"before_cursor_execute">>
    \o (IF debug THEN <<"commit", "rollback", "begin">> ELSE <<>>)

EngState(e, l, c) == [engines |-> e, listeners |-> l, constructed |-> c]

\* url = config.dburl if url is None
EffectiveURL(url) == IF url = "None" THEN dburl ELSE url

\* get_engine without the membership test: an engine is made on every call
get_engine_always_creates(st, url, debug) ==
    LET u == EffectiveURL(url)
        e == NewEngine(st.constructed)
    IN  [st |-> EngState(DictUpdate(st.engines, u :> e),
                         DictUpdate(st.listeners, e :> Listens(u, debug)),
                         Append(st.constructed, [url |-> u, engine |-> e])),
         engine |-> e]

\* get_engine(url), run from its first line to its return with no other
\* thread in between
get_engine(st, url, debug) ==
    LET u == EffectiveURL(url)
        e == NewEngine(st.constructed)
    IN  IF u \notin DOMAIN st.engines
        THEN [st |-> EngState(DictUpdate(st.engines, u :> e),
                              DictUpdate(st.listeners, e :> Listens(u, debug)),
                              Append(st.constructed, [url |-> u, engine |-> e])),
              engine |-> e]
        ELSE [st |-> st, engine |-> st.engines[u]]

MaxCalls == 4

Threads == {"t1", "t2"}

ThreadIdle == [pc |-> "idle", url |-> "None", engine |-> 0]

EngIdle ==
    /\ engines = EmptyDict
    /\ listeners = EmptyDict
    /\ constructed = <<>>
    /\ returned = <<>>
    /\ debugOn = FALSE
    /\ thr = [t \in Threads |-> ThreadIdle]

EngInit ==
    /\ engines = EmptyDict
    /\ listeners = EmptyDict
    /\ constructed = <<>>
    /\ returned = <<>>
    /\ debugOn \in BOOLEAN
    /\ thr = [t \in Threads |-> ThreadIdle]

\* One call of get_engine, the calls being made one after another
GetEngine ==
    /\ Len(returned) < MaxCalls
    /\ \E url \in URLs \cup {"None"} :
          LET r == get_engine(EngState(engines, listeners, constructed),
                              url, debugOn)
          IN  /\ engines' = r.st.engines
              /\ listeners' = r.st.listeners
              /\ constructed' = r.st.constructed
              /\ returned' = Append(returned,
                                    [url |-> EffectiveURL(url), engine |-> r.engine])
    /\ UNCHANGED <<debugOn, thr>>
    /\ UNCHANGED notEngVars

EngNext == GetEngine

\* ---- get_engine called from several threads: one action for each
\* ---- statement, the threads interleaving between statements
MaxThreadCalls == 3

InCall == { t \in Threads : thr[t].pc # "idle" }

\* A thread calls get_engine(url); url = config.dburl if url is None
T_Call(t) ==
    /\ thr[t].pc = "idle"
    /\ Len(returned) + Cardinality(InCall) < MaxThreadCalls
    /\ \E url \in URLs \cup {"None"} :
          thr' = [thr EXCEPT ![t] = [pc |-> "test", url |-> EffectiveURL(url),
                                     engine |-> 0]]
    /\ UNCHANGED <<engines, listeners, constructed, returned, debugOn>>
    /\ UNCHANGED notEngVars

\* if url not in __engines:
T_Test(t) ==
    /\ thr[t].pc = "test"
    /\ thr' = [thr EXCEPT ![t].pc = IF thr[t].url \notin DOMAIN engines
                                    THEN "create" ELSE "return"]
    /\ UNCHANGED <<engines, listeners, constructed, returned, debugOn>>
    /\ UNCHANGED notEngVars

\* engine = sa.create_engine(url)
T_Create(t) ==
    /\ thr[t].pc = "create"
    /\ constructed' = Append(constructed, [url |-> thr[t].url,
                                           engine |-> NewEngine(constructed)])
    /\ thr' = [thr EXCEPT ![t].pc = "listen",
                          ![t].engine = NewEngine(constructed)]
    /\ UNCHANGED <<engines, listeners, returned, debugOn>>
    /\ UNCHANGED notEngVars

\* the sa.event.listen calls
T_Listen(t) ==
    /\ thr[t].pc = "listen"
    /\ listeners' = DictUpdate(listeners,
                               thr[t].engine :> Listens(thr[t].url, debugOn))
    /\ thr' = [thr EXCEPT ![t].pc = "store"]
    /\ UNCHANGED <<engines, constructed, returned, debugOn>>
    /\ UNCHANGED notEngVars

\* __engines[url] = engine
T_Store(t) ==
    /\ thr[t].pc = "store"
    /\ engines' = DictUpdate(engines, thr[t].url :> thr[t].engine)
    /\ thr' = [thr EXCEPT ![t].pc = "return"]
    /\ UNCHANGED <<listeners, constructed, returned, debugOn>>
    /\ UNCHANGED notEngVars

\* return __engines[url]
T_Return(t) ==
    /\ thr[t].pc = "return"
    /\ returned' = Append(returned, [url |-> thr[t].url,
                                     engine |-> engines[thr[t].url]])
    /\ thr' = [thr EXCEPT ![t] = ThreadIdle]
    /\ UNCHANGED <<engines, listeners, constructed, debugOn>>
    /\ UNCHANGED notEngVars

EngThreadsNext ==
    \E t \in Threads :
        \/ T_Call(t)
        \/ T_Test(t)
        \/ T_Create(t)
        \/ T_Listen(t)
        \/ T_Store(t)
        \/ T_Return(t)

(***************************************************************************)
(* database/__init__.py: Database.transaction and Database.is_created      *)
(***************************************************************************)
\* Engine.begin(close_with_result): checks a connection out, begins a
\* transaction on it and returns the context manager of the pair
EngineBegin(conns, cwr) ==
    [conns |-> Append(conns, [events |-> <<"begin">>, closed |-> FALSE]),
     ctx |-> [kind |-> "transaction", conn |-> Len(conns) + 1,
              close_with_result |-> cwr]]

\* Engine.connect(): checks a connection out; a Connection is its own
\* context manager
EngineConnect(conns, cwr) ==
    [conns |-> Append(conns, [events |-> <<>>, closed |-> FALSE]),
     ctx |-> [kind |-> "connection", conn |-> Len(conns) + 1,
              close_with_result |-> cwr]]

\* The context manager's __exit__: with an error the transaction is rolled
\* back, without one it is committed; the connection is closed unless
\* close_with_result. A bare Connection is only closed.
CtxExit(conns, ctx, error) ==
    IF ctx.kind = "transaction"
    THEN [conns EXCEPT ![ctx.conn] =
            [events |-> Append(@.events, IF error THEN "rollback" ELSE "commit"),
             closed |-> ~ctx.close_with_result]]
    ELSE [conns EXCEPT ![ctx.conn].closed = TRUE]

\* transaction() handing out a plain connection: no transaction is begun
transaction_connects(conns, cwr) == EngineConnect(conns, cwr)

\* Database.transaction(*args, **kwargs)
transaction(conns, cwr) == EngineBegin(conns, cwr)

\* Database.is_created(): the with-block around engine.table_names, which
\* returns the table names or raises
is_created(conns, tables) ==
    LET b == transaction(conns, FALSE)
    IN  [conns |-> CtxExit(b.conns, b.ctx, tables = "raises"),
         ctx |-> b.ctx,
         raised |-> tables = "raises",
         result |-> tables = "some"]

MaxScopes == 3

TxIdle ==
    /\ txConns = <<>>
    /\ txScopes = <<>>
    /\ txStack = <<>>
    /\ txPending = FALSE

TxInit == TxIdle

Innermost == txStack[Len(txStack)]

\* with db.transaction(...) as conn: the scope is entered
With ==
    /\ ~txPending
    /\ Len(txScopes) < MaxScopes
    /\ \E cwr \in BOOLEAN :
          LET b == transaction(txConns, cwr)
          IN  /\ txConns' = b.conns
              /\ txScopes' = Append(txScopes, [ctx |-> b.ctx, left |-> "no"])
              /\ txStack' = Append(txStack, Len(txScopes) + 1)
    /\ UNCHANGED txPending
    /\ UNCHANGED notTxVars

\* The body of the innermost scope completes
ExitNormal ==
    /\ ~txPending
    /\ txStack # <<>>
    /\ txConns' = CtxExit(txConns, txScopes[Innermost].ctx, FALSE)
    /\ txScopes' = [txScopes EXCEPT ![Innermost].left = "normally"]
    /\ txStack' = SubSeq(txStack, 1, Len(txStack) - 1)
    /\ UNCHANGED txPending
    /\ UNCHANGED notTxVars

\* The body of the innermost scope raises, or an error raised in a scope
\* inside it reaches it
ExitError ==
    /\ txStack # <<>>
    /\ txConns' = CtxExit(txConns, txScopes[Innermost].ctx, TRUE)
    /\ txScopes' = [txScopes EXCEPT ![Innermost].left = "by error"]
    /\ txStack' = SubSeq(txStack, 1, Len(txStack) - 1)
    /\ txPending' = TRUE
    /\ UNCHANGED notTxVars

\* The caller's except clause, outside the scope that raised
Catch ==
    /\ txPending
    /\ txPending' = FALSE
    /\ UNCHANGED <<txConns, txScopes, txStack>>
    /\ UNCHANGED notTxVars

\* Database.is_created()
IsCreated ==
    /\ ~txPending
    /\ Len(txScopes) < MaxScopes
    /\ \E tables \in {"some", "none", "raises"} :
          LET r == is_created(txConns, tables)
          IN  /\ txConns' = r.conns
              /\ txScopes' = Append(txScopes,
                    [ctx |-> r.ctx,
                     left |-> IF r.raised THEN "by error" ELSE "normally"])
              /\ txPending' = r.raised
    /\ UNCHANGED txStack
    /\ UNCHANGED notTxVars

TxNext == With \/ ExitNormal \/ ExitError \/ Catch \/ IsCreated

(***************************************************************************)
(* database/__init__.py: fancy_getitem                                     *)
(***************************************************************************)
\* The characters of the keys, in the order of their code points
\* ("L" < "U" < "_" < "f" < "g"), the order sorted() compares strings by
KeyChars == <<"L", "U", "_", "f", "g">>

Ord(c) == CHOOSE i \in DOMAIN KeyChars : KeyChars[i] = c

\* a < b for two strings
RECURSIVE StrLess(_, _)
StrLess(a, b) ==
    IF b = <<>> THEN FALSE
    ELSE IF a = <<>> THEN TRUE
    ELSE IF Head(a) # Head(b) THEN Ord(Head(a)) < Ord(Head(b))
    ELSE StrLess(Tail(a), Tail(b))

RECURSIVE InsertSorted(_, _)
InsertSorted(x, l) ==
    IF l = <<>> THEN <<x>>
    ELSE IF StrLess(Head(l), x) THEN <<Head(l)>> \o InsertSorted(x, Tail(l))
    ELSE <<x>> \o l

\* sorted(l)
RECURSIVE Sorted(_)
Sorted(l) == IF l = <<>> THEN <<>> ELSE InsertSorted(Head(l), Sorted(Tail(l)))

Range(l) == { l[i] : i \in DOMAIN l }

\* The column names a row may have
ColumnPool ==
    { <<"f">>, <<"f", "g">>, <<"g">>, <<"f", "_", "L">>, <<"U", "_", "f">> }

\* The value the row holds in a column: a string of mixed case, different
\* for each column
ValueOf(col) == <<"V">> \o col \o <<"z">>

\* filterfunc: null, string.lower or string.upper
Filter(func, value) ==
    CASE func = "lower" -> Lower(value)
      [] func = "upper" -> Upper(value)
      [] OTHER -> value

Value(func, col) == [kind |-> "value", value |-> Filter(func, ValueOf(col))]

BadColumnName(what, key, names) ==
    [kind |-> "BadColumnNameError", what |-> what, key |-> key, names |-> names]

\* [k for k in self.keys() if k.startswith(key)]
RECURSIVE Matches(_, _)
Matches(keys, key) ==
    IF keys = <<>> THEN <<>>
    ELSE (IF StartsWith(Head(keys), key) THEN <<Head(keys)>> ELSE <<>>)
         \o Matches(Tail(keys), key)

\* The lookup after the suffix was stripped, without the test for a column
\* of that very name
Lookup_prefix_only(keys, func, key) ==
    LET matches == Matches(keys, key)
    IN  IF Len(matches) = 1 THEN Value(func, matches[1])
        ELSE IF Len(matches) > 1 THEN BadColumnName("ambiguous", key, matches)
        ELSE BadColumnName("doesn't exist", key, Sorted(keys))

\* The lookup after the suffix was stripped
Lookup(keys, func, key) ==
    IF key \in Range(keys)
    THEN Value(func, key)
    ELSE LET matches == Matches(keys, key)
         IN  IF Len(matches) = 1 THEN Value(func, matches[1])
             ELSE IF Len(matches) > 1
             THEN BadColumnName("ambiguous", key, matches)
             ELSE BadColumnName("doesn't exist", key, Sorted(keys))

\* fancy_getitem(self, key) for a string key
fancy_getitem(keys, key) ==
    IF EndsWith(key, <<"_", "L">>) THEN Lookup(keys, "lower", DropLast(key, 2))
    ELSE IF EndsWith(key, <<"_", "U">>)
    THEN Lookup(keys, "upper", DropLast(key, 2))
    ELSE Lookup(keys, "null", key)

MaxCols == 2

MaxKeyLen == 4

StringsUpTo(chars, n) == UNION { [1..k -> chars] : k \in 0..n }

Rows ==
    { r \in StringsUpTo(ColumnPool, MaxCols) :
        \A i, j \in DOMAIN r : r[i] = r[j] => i = j }

NoResult == [kind |-> "none"]

RowIdle ==
    /\ rowKeys = <<>>
    /\ rowKey = <<>>
    /\ rowResult = NoResult

RowInit ==
    /\ rowKeys \in Rows
    /\ rowKey \in StringsUpTo(Range(KeyChars), MaxKeyLen)
    /\ rowResult = NoResult

\* row[key]
GetItem ==
    /\ rowResult = NoResult
    /\ rowResult' = fancy_getitem(rowKeys, rowKey)
    /\ UNCHANGED <<rowKeys, rowKey>>
    /\ UNCHANGED notRowVars

RowNext == GetItem

(***************************************************************************)
(* correct.py: parse_obslog_line and get_obslog_entry                      *)
(*                                                                         *)
(* Times of day are whole seconds.  The code compares them as floating     *)
(* point hours: two times a whole minute apart may compare either way, so  *)
(* a comparison of equal values takes its outcome (tie) as an input.       *)
(***************************************************************************)
\* HOURS_PER_MIN, in seconds
HOURS_PER_MIN == 60

\* len(OBSLOG_FIELDS)
NumFields == 9

\* utils.get_prefname: the preferred name of a source
get_prefname(name) == IF name = <<"B">> THEN <<"J">> ELSE name

\* previnfo before the first valid line
Unbound == [kind |-> "unbound"]

\* An entry of the log; the fields the search does not read are left out
Entry(date, start, name) ==
    [kind |-> "entry", localdate |-> date, utcstart |-> start, name |-> name]

\* A line of a log file: its number of whitespace separated fields, whether
\* the converters accept the first nine, and what they give
Line(nfields, converts, info) ==
    [nfields |-> nfields, converts |-> converts, info |-> info]

\* parse_obslog_line(line)
parse_obslog_line(line) ==
    IF line.nfields < NumFields THEN [kind |-> "FormatError"]
    ELSE IF ~line.converts THEN [kind |-> "ValueError"]
    ELSE line.info

\* a >= b and a <= b on floats
FloatGE(a, b, tie) == a > b \/ (a = b /\ tie)

FloatLE(a, b, tie) == a < b \/ (a = b /\ tie)

\* The test of lines 239-242 without the minute of tolerance
Brackets_no_tolerance(arf, prev, curr, tieLo, tieHi) ==
    /\ arf.date >= prev.localdate
    /\ arf.date <= curr.localdate
    /\ FloatGE(arf.sec, prev.utcstart, tieLo)
    /\ FloatLE(arf.sec, curr.utcstart, tieHi)

\* The test of lines 239-242
Brackets(arf, prev, curr, tieLo, tieHi) ==
    /\ arf.date >= prev.localdate
    /\ arf.date <= curr.localdate
    /\ FloatGE(arf.sec, prev.utcstart - HOURS_PER_MIN, tieLo)
    /\ FloatLE(arf.sec, curr.utcstart + HOURS_PER_MIN, tieHi)

ScanState(c, p, l, e) ==
    [check |-> c, previnfo |-> p, logentries |-> l, error |-> e]

\* The loop body with the flag taken from the previous entry's name
ScanLine_flag_from_previous(sc, arf, line, tieLo, tieHi) ==
    LET currinfo == parse_obslog_line(line)
    IN  IF currinfo.kind = "FormatError" THEN sc
        ELSE IF currinfo.kind = "ValueError"
        THEN [sc EXCEPT !.error = "ValueError"]
        ELSE ScanState(
               IF sc.previnfo = Unbound THEN FALSE
               ELSE get_prefname(sc.previnfo.name) = arf.name,
               currinfo,
               IF sc.check /\ Brackets(arf, sc.previnfo, currinfo, tieLo, tieHi)
               THEN Append(sc.logentries, sc.previnfo)
               ELSE sc.logentries,
               "none")

\* The body of the loop over the lines (lines 233-250)
ScanLine(sc, arf, line, tieLo, tieHi) ==
    LET currinfo == parse_obslog_line(line)
    IN  IF currinfo.kind = "FormatError" THEN sc
        ELSE IF currinfo.kind = "ValueError"
        THEN [sc EXCEPT !.error = "ValueError"]
        ELSE ScanState(
               get_prefname(currinfo.name) = arf.name,
               currinfo,
               IF sc.check /\ Brackets(arf, sc.previnfo, currinfo, tieLo, tieHi)
               THEN Append(sc.logentries, sc.previnfo)
               ELSE sc.logentries,
               "none")

\* The loop over the sorted log files (lines 212-222): the files of the
\* observation's date, and the first file after it
RECURSIVE SelectFiles(_, _)
SelectFiles(fns, obsdate) ==
    IF fns = <<>> THEN <<>>
    ELSE IF Head(fns).date = obsdate
    THEN <<Head(fns)>> \o SelectFiles(Tail(fns), obsdate)
    ELSE IF Head(fns).date > obsdate THEN <<Head(fns)>>
    ELSE SelectFiles(Tail(fns), obsdate)

HeaderCorrectionError(why) == [kind |-> "HeaderCorrectionError", why |-> why]

\* Lines 251-260
Conclude(entries) ==
    IF Len(entries) # 1
    THEN HeaderCorrectionError("Bad number of entries")
    ELSE [kind |-> "found", entry |-> entries[1]]

\* ---- the inputs of the search
ObsDates == {2}

\* 12:00:00 UTC
ObsTimes == {43200}

TargetNames == { <<"J">>, <<"X">> }

LogDates == {1, 2, 3}

LogTimes == { t + d : t \in ObsTimes, d \in {-61, -60, 59, 60, 61} }

LogNames == { <<"B">>, <<"J">>, <<"X">> }

LogLines ==
    { Line(NumFields - 1, FALSE, Unbound), Line(NumFields, FALSE, Unbound) }
    \cup { Line(NumFields, TRUE, Entry(d, t, n)) :
              d \in LogDates, t \in LogTimes, n \in LogNames }

\* The sorted lists of log files a directory may hold, a file for a date
LogDirs ==
    { fns \in StringsUpTo({ [date |-> d] : d \in LogDates }, Cardinality(LogDates)) :
        \A i, j \in DOMAIN fns : i < j => fns[i].date < fns[j].date }

MaxLines == 3

\* The outcomes a comparison a >= b or a <= b on floats may have
Ties(a, b) == IF a = b THEN BOOLEAN ELSE {FALSE}

OlIdle ==
    /\ olPc = "idle"
    /\ olArf = [name |-> <<>>, date |-> 0, sec |-> 0]
    /\ obslogfns = <<>>
    /\ tosearch = <<>>
    /\ olFile = 0
    /\ olLines = 0
    /\ olLast = "none"
    /\ check = FALSE
    /\ previnfo = Unbound
    /\ logentries = <<>>
    /\ olOutcome = NoResult

OlInit ==
    /\ olPc = "select"
    /\ olArf \in [name : TargetNames, date : ObsDates, sec : ObsTimes]
    /\ obslogfns \in LogDirs
    /\ tosearch = <<>>
    /\ olFile = 0
    /\ olLines = 0
    /\ olLast = "none"
    /\ check = FALSE
    /\ previnfo = Unbound
    /\ logentries = <<>>
    /\ olOutcome = NoResult

\* Lines 207-229: the files are selected; with none the search fails
OlSelect ==
    /\ olPc = "select"
    /\ tosearch' = SelectFiles(obslogfns, olArf.date)
    /\ obslogfns' = <<>>
    /\ IF tosearch' = <<>>
       THEN /\ olPc' = "done"
            /\ olOutcome' = HeaderCorrectionError("Could not find an obslog file")
            /\ UNCHANGED olFile
       ELSE /\ olPc' = "scan"
            /\ olFile' = 1
            /\ UNCHANGED olOutcome
    /\ UNCHANGED <<olArf, olLines, olLast, check, previnfo, logentries>>
    /\ UNCHANGED notOlVars

\* One more line of the file being read
OlLine ==
    /\ olPc = "scan"
    /\ olLines < MaxLines
    /\ \E line \in LogLines :
       \E tieLo \in IF previnfo = Unbound THEN {FALSE}
                     ELSE Ties(olArf.sec, previnfo.utcstart - HOURS_PER_MIN),
          tieHi \in IF line.info = Unbound THEN {FALSE}
                     ELSE Ties(olArf.sec, line.info.utcstart + HOURS_PER_MIN) :
          LET sc == ScanLine(ScanState(check, previnfo, logentries, "none"),
                             olArf, line, tieLo, tieHi)
          IN  /\ check' = sc.check
              /\ previnfo' = sc.previnfo
              /\ logentries' = sc.logentries
              /\ olLast' = parse_obslog_line(line).kind
              /\ IF sc.error = "none"
                 THEN UNCHANGED <<olPc, olOutcome>>
                 ELSE /\ olPc' = "done"
                      /\ olOutcome' = [kind |-> sc.error]
    /\ olLines' = olLines + 1
    /\ UNCHANGED <<olArf, obslogfns, tosearch, olFile>>
    /\ UNCHANGED notOlVars

\* The file being read ends and another one follows
OlNextFile ==
    /\ olPc = "scan"
    /\ olFile < Len(tosearch)
    /\ olFile' = olFile + 1
    /\ olLast' = "end of file"
    /\ UNCHANGED <<olPc, olArf, obslogfns, tosearch, olLines, check, previnfo,
                   logentries, olOutcome>>
    /\ UNCHANGED notOlVars

\* The last file ends: lines 251-260
OlConclude ==
    /\ olPc = "scan"
    /\ olFile = Len(tosearch)
    /\ olPc' = "done"
    /\ olLast' = "end of file"
    /\ olOutcome' = Conclude(logentries)
    /\ UNCHANGED <<olArf, obslogfns, tosearch, olFile, olLines, check, previnfo,
                   logentries>>
    /\ UNCHANGED notOlVars

OlNext == OlSelect \/ OlLine \/ OlNextFile \/ OlConclude

(***************************************************************************)
(* correct.py: get_coordinates and correct_header                          *)
(*                                                                         *)
(* The correction string is a sequence of fragments key=value, joined by   *)
(* commas in the code; the note is the sequence of the pieces appended.    *)
(***************************************************************************)
Frag(key, value) == [key |-> key, value |-> value]

\* RCVR_INFO
RCVR_INFO ==
    [ r \in {"P217-3", "S110-1", "P200-3", "S60-2", "S36-5"} |->
        << Frag("rcvr:name", <<r>>), Frag("rcvr:hand", <<"-1">>),
           Frag("rcvr:basis", <<"cir">>) >> ]

\* The lines of the files searched, in the order they are read
RECURSIVE FileLines(_)
FileLines(fns) ==
    IF fns = <<>> THEN <<>> ELSE Head(fns).lines \o FileLines(Tail(fns))

\* The loops of lines 230-250; an error of the parser ends them
RECURSIVE ScanLines(_, _, _)
ScanLines(sc, arf, lines) ==
    IF lines = <<>> \/ sc.error # "none" THEN sc
    ELSE ScanLines(ScanLine(sc, arf, Head(lines), FALSE, FALSE), arf, Tail(lines))

\* get_obslog_entry(arf), with the log files of the directory
get_obslog_entry(arf, fns) ==
    LET files == SelectFiles(fns, arf.date)
    IN  IF files = <<>>
        THEN HeaderCorrectionError("Could not find an obslog file")
        ELSE LET sc == ScanLines(ScanState(FALSE, Unbound, <<>>, "none"),
                                 arf, FileLines(files))
             IN  IF sc.error # "none" THEN [kind |-> sc.error]
                 ELSE Conclude(sc.logentries)

None == [kind |-> "None"]

\* get_coordinates(arf, obsinfo); sky is what EFF.get_skyposn and the
\* formatters of the position give
get_coordinates(arf, obsinfo, fns, sky) ==
    LET found == IF obsinfo = None THEN get_obslog_entry(arf, fns)
                 ELSE [kind |-> "found", entry |-> obsinfo]
    IN  IF found.kind # "found" THEN found
        ELSE [kind |-> "coords",
              rastr |-> sky.ra,
              decstr |-> IF Head(sky.dec) \notin {"-", "+"}
                         THEN <<"+">> \o sky.dec ELSE sky.dec]

\* Lines 90-118 with the bounds of the L-band test included
Receiver_closed_bounds(in) ==
    IF in.band = "Cband" THEN [kind |-> "ok", rcvr |-> "S60-2"]
    ELSE IF in.band = "Xband" THEN [kind |-> "ok", rcvr |-> "S36-5"]
    ELSE IF in.band = "Sband" THEN [kind |-> "ok", rcvr |-> "S110-1"]
    ELSE IF in.band = "Lband"
    THEN IF in.top >= 5 * in.bot THEN [kind |-> "ok", rcvr |-> "P200-3"]
         ELSE IF in.top <= 2 * in.bot THEN [kind |-> "ok", rcvr |-> "P217-3"]
         ELSE HeaderCorrectionError("Cannot determine receiver.")
    ELSE HeaderCorrectionError("Not set up to correct headers")

\* Lines 90-118: the receiver, from the band and for Lband from the mean
\* deviations top and bot of the two parts of the band.  top/bot is a
\* division of floats: top/0 is inf for top > 0 and nan for top = 0, and
\* a nan compares false both ways
Receiver(in) ==
    IF in.band = "Cband" THEN [kind |-> "ok", rcvr |-> "S60-2"]
    ELSE IF in.band = "Xband" THEN [kind |-> "ok", rcvr |-> "S36-5"]
    ELSE IF in.band = "Sband" THEN [kind |-> "ok", rcvr |-> "S110-1"]
    ELSE IF in.band = "Lband"
    THEN IF in.top > 5 * in.bot THEN [kind |-> "ok", rcvr |-> "P200-3"]
         ELSE IF in.top < 2 * in.bot THEN [kind |-> "ok", rcvr |-> "P217-3"]
         ELSE HeaderCorrectionError("Cannot determine receiver.")
    ELSE HeaderCorrectionError("Not set up to correct headers")

R_ == <<"_", "R">>

S_R == <<"_", "S", "_", "R">>

N_R == <<"_", "N", "_", "R">>

O_R == <<"_", "O", "_", "R">>

RaUnset == <<"0", "0", ":", "0", "0", ":", "0", "0">>

\* The condition of lines 123-124 without the right ascension
WantsCoords_without_ra(in) ==
    in.obsinfo # None \/ EndsWith(in.name, R_)

\* The condition of lines 123-124
WantsCoords(in) ==
    in.obsinfo # None \/ EndsWith(in.name, R_) \/ StartsWith(in.ra, RaUnset)

\* any([name.startswith(fluxcal) for fluxcal in read_fluxcal_names(...)])
IsFluxCal(name, fluxcals) ==
    \E i \in DOMAIN fluxcals : StartsWith(name, fluxcals[i])

\* Lines 134-148 with the suffix looked at before the calibrator names
Classify_suffix_first(name, fluxcals) ==
    IF EndsWith(name, R_)
    THEN IF EndsWith(name, S_R) \/ EndsWith(name, N_R)
         THEN <<Frag("type", <<"FluxCal-Off">>)>>
         ELSE IF EndsWith(name, O_R)
         THEN <<Frag("type", <<"FluxCal-On">>)>>
         ELSE IF IsFluxCal(name, fluxcals) THEN <<>>
         ELSE <<Frag("type", <<"PolnCal">>)>>
    ELSE <<Frag("type", <<"Pulsar">>)>>

\* Lines 134-148 with a flux calibrator of unknown suffix taken for a
\* polarization calibrator
Classify_unknown_as_polncal(name, fluxcals) ==
    IF EndsWith(name, R_)
    THEN IF IsFluxCal(name, fluxcals)
              /\ (EndsWith(name, S_R) \/ EndsWith(name, N_R))
         THEN <<Frag("type", <<"FluxCal-Off">>)>>
         ELSE IF IsFluxCal(name, fluxcals) /\ EndsWith(name, O_R)
         THEN <<Frag("type", <<"FluxCal-On">>)>>
         ELSE <<Frag("type", <<"PolnCal">>)>>
    ELSE <<Frag("type", <<"Pulsar">>)>>

\* Lines 134-148: the fragments the classification appends
Classify(name, fluxcals) ==
    IF EndsWith(name, R_)
    THEN IF IsFluxCal(name, fluxcals)
         THEN IF EndsWith(name, S_R) \/ EndsWith(name, N_R)
              THEN <<Frag("type", <<"FluxCal-Off">>)>>
              ELSE IF EndsWith(name, O_R)
              THEN <<Frag("type", <<"FluxCal-On">>)>>
              ELSE <<>>
         ELSE <<Frag("type", <<"PolnCal">>)>>
    ELSE <<Frag("type", <<"Pulsar">>)>>

\* How a call of correct_header ends: what it returned or raised, the
\* receiver chosen, the correction string and the note as they were then,
\* and the calls it made of get_coordinates and of the editor
CorOutcome(kind, why, rcvr, corrstr, note, calls, edited, corrfn) ==
    [kind |-> kind, why |-> why, rcvr |-> rcvr, corrstr |-> corrstr,
     note |-> note, calls |-> calls, edited |-> edited, corrfn |-> corrfn]

\* correct_header(arfn, obsinfo, outfn, backend)
correct_header(in) ==
    LET backend == IF in.backend = "omitted" THEN "asterix" ELSE in.backend
        arf == [name |-> in.name, date |-> in.date, sec |-> in.sec]
        sel == Receiver(in)
    IN  IF sel.kind # "ok"
        THEN CorOutcome("HeaderCorrectionError", sel.why, "none", <<>>, <<>>,
                        <<>>, <<>>, "none")
        ELSE
        LET rcvr == sel.rcvr
            note1 == IF in.rcvr # rcvr
                     THEN <<"Receiver is wrong", in.rcvr, rcvr>> ELSE <<>>
            corrstr1 == RCVR_INFO[rcvr] \o <<Frag("be:name", <<backend>>)>>
            wants == WantsCoords(in)
            co == IF wants THEN get_coordinates(arf, in.obsinfo, in.logs, in.sky)
                  ELSE [kind |-> "not called"]
            calls1 == IF wants THEN <<"get_coordinates">> ELSE <<>>
        IN  IF co.kind \notin {"not called", "coords", "HeaderCorrectionError"}
            THEN CorOutcome(co.kind, "", rcvr, corrstr1, note1, calls1, <<>>,
                            "none")
            ELSE
            LET note2 ==
                    IF ~wants THEN note1 \o <<"No reason to correct coords.">>
                    ELSE IF co.kind = "HeaderCorrectionError"
                    THEN note1 \o <<co.why, "\n(Could not correct coordinates)">>
                    ELSE note1
                corrstr2 ==
                    IF co.kind = "coords"
                    THEN corrstr1 \o <<Frag("coord", co.rastr \o co.decstr)>>
                    ELSE corrstr1
                corrstr == corrstr2 \o Classify(in.name, in.fluxcals)
                calls == calls1 \o <<"psredit">>
            IN  IF ~in.editorWrites
                THEN CorOutcome("HeaderCorrectionError",
                                "The corrected file does not exist!", rcvr,
                                corrstr, note2, calls, <<corrstr>>, "none")
                ELSE CorOutcome("returned", "", rcvr, corrstr, note2, calls,
                                <<corrstr>>,
                                IF in.outfn = "None" THEN "arfn.corr"
                                ELSE "outfn % arf")

\* ---- the inputs of the correction
\* The largest mean deviations of the two parts of an L-band archive
MaxTop == 6

MaxBot == 2

Bands == {"Cband", "Xband", "Sband", "Lband", "Kband"}

\* The band of the archive and, for Lband, what is measured from its data
BandCases ==
    { [band |-> b, top |-> 0, bot |-> 0] : b \in Bands \ {"Lband"} }
    \cup { [band |-> "Lband", top |-> t, bot |-> b] :
              t \in 0..MaxTop, b \in 0..MaxBot }

\* The names of the configured flux calibrators
FluxCalLists == { <<>>, << <<"3", "C">> >> }

SourceNames ==
    { p \o s : p \in { <<"3", "C">>, <<"J">> },
               s \in { <<>>, R_, S_R, N_R, O_R, <<"_", "S">> } }

HeaderRas == { RaUnset \o <<".", "0">>,
               <<"0", "0", ":", "0", "0", ":", "0", "1">> }

SkyPositions ==
    { [ra |-> <<"1", "2">>, dec |-> d] : d \in { <<"-", "1">>, <<"1">> } }

\* A log file of a date with its lines
LogFile(date, lines) == [date |-> date, lines |-> lines]

\* The log directories: empty, with one entry for the source at the time
\* of the observation, with no entry for it, with a line that does not
\* convert
LogsOf(name, date, sec) ==
    { <<>>,
      << LogFile(date, << Line(NumFields - 1, FALSE, Unbound),
                          Line(NumFields, TRUE, Entry(date, sec - 30, name)),
                          Line(NumFields, TRUE,
                               Entry(date, sec + 600, <<"X">>)) >>) >>,
      << LogFile(date, << Line(NumFields, TRUE,
                               Entry(date, sec - 30, <<"X">>)) >>) >>,
      << LogFile(date, << Line(NumFields, FALSE, Unbound) >>) >> }

\* The observing-log information and the log directory of a call: with the
\* information supplied the directory is not read
CoordSources(name, date, sec) ==
    { [obsinfo |-> Entry(date, sec - 30, name), logs |-> <<>>] }
    \cup { [obsinfo |-> None, logs |-> l] : l \in LogsOf(name, date, sec) }

\* What a call of correct_header reads: the header of the archive, what is
\* measured from its data, the arguments, the configuration and the files
CorInput(bc, hr, n, ra, d, t, cs, sky, fc, be, out, ew) ==
    [band |-> bc.band, top |-> bc.top, bot |-> bc.bot, rcvr |-> hr,
     name |-> n, ra |-> ra, date |-> d, sec |-> t,
     obsinfo |-> cs.obsinfo, logs |-> cs.logs, sky |-> sky,
     fluxcals |-> fc, backend |-> be, outfn |-> out, editorWrites |-> ew]

NoOutcome == CorOutcome("none", "", "none", <<>>, <<>>, <<>>, <<>>, "none")

CorIdle ==
    /\ corPc = "idle"
    /\ corIn = None
    /\ corOut = NoOutcome

CorInit ==
    /\ corPc = "call"
    /\ \E n \in SourceNames, d \in ObsDates, t \in ObsTimes :
       \E bc \in BandCases, hr \in {"P217-3", "S60-2"}, ra \in HeaderRas,
          cs \in CoordSources(n, d, t), sky \in SkyPositions,
          fc \in FluxCalLists, be \in {"omitted", "paf"},
          out \in {"None", "template"}, ew \in BOOLEAN :
          corIn = CorInput(bc, hr, n, ra, d, t, cs, sky, fc, be, out, ew)
    /\ corOut = NoOutcome

\* A call of correct_header
CorrectHeader ==
    /\ corPc = "call"
    /\ corOut' = correct_header(corIn)
    /\ corPc' = "done"
    /\ UNCHANGED corIn
    /\ UNCHANGED notCorVars

CorNext == CorrectHeader

(***************************************************************************)
(* The specifications, one for each component                              *)
(***************************************************************************)
InitConfig == CfgInit /\ EngIdle /\ TxIdle /\ RowIdle /\ OlIdle /\ CorIdle

SpecConfig == InitConfig /\ [][CfgNext]_vars

InitEngine == EngInit /\ CfgIdle /\ TxIdle /\ RowIdle /\ OlIdle /\ CorIdle

SpecEngine == InitEngine /\ [][EngNext]_vars

SpecEngineThreads == InitEngine /\ [][EngThreadsNext]_vars

InitTransaction ==
    TxInit /\ CfgIdle /\ EngIdle /\ RowIdle /\ OlIdle /\ CorIdle

SpecTransaction == InitTransaction /\ [][TxNext]_vars

InitRow == RowInit /\ CfgIdle /\ EngIdle /\ TxIdle /\ OlIdle /\ CorIdle

SpecRow == InitRow /\ [][RowNext]_vars

InitObslog == OlInit /\ CfgIdle /\ EngIdle /\ TxIdle /\ RowIdle /\ CorIdle

SpecObslog == InitObslog /\ [][OlNext]_vars

InitCorrect == CorInit /\ CfgIdle /\ EngIdle /\ TxIdle /\ RowIdle /\ OlIdle

SpecCorrect == InitCorrect /\ [][CorNext]_vars

(***************************************************************************)
(* C1                                                                      *)
(***************************************************************************)
\* The files of a sequence that bind key k, by position
Binders(l, k) == { i \in DOMAIN l : k \in FileKeys(l[i]) }

\* The merged configuration is the layering of the files in l: a key is
\* bound iff some file binds it, to the value of the last file that does
LayeredFrom(l) ==
    /\ DOMAIN configs = UNION { FileKeys(l[i]) : i \in DOMAIN l }
    /\ \A k \in DOMAIN configs :
          \E i \in Binders(l, k) :
              /\ \A j \in Binders(l, k) : j <= i
              /\ configs[k] = FileBindings(l[i])[k]

\* The order the claim gives for the candidates of an archive
ClaimedOrder(ar) ==
    << Path("", DefaultBase \o CfgExt),
       Path("telescopes", Lower(site_to_telescope[Lower(ar.site)]) \o CfgExt),
       Path("receivers", Lower(ar.rcvr) \o CfgExt),
       Path("backends", Lower(ar.be) \o CfgExt),
       Path("pulsars", Upper(ar.name) \o CfgExt),
       Path("observations", ar.fn.base \o CfgExt) >>

Exists(p) == p \in fs

\* get_default_configs and then get_configs_for_archive were called on a
\* fresh object and both returned
DefaultThenArchive ==
    /\ Len(cfgOps) = 2
    /\ cfgOps[1].call.op = "get_default_configs"
    /\ cfgOps[2].call.op = "get_configs_for_archive"
    /\ cfgOps[1].result = "ok"
    /\ cfgOps[2].result = "ok"

\* C1: the merged configuration binds every key to the value of the most
\* recent successful load that defines it; after get_default_configs and
\* get_configs_for_archive the loads are the existing candidates in the
\* order default, telescopes, receivers, backends, pulsars, observations,
\* so the last existing file in that order that binds a key decides it.
C1_LaterLoadsWin ==
    /\ LayeredFrom(loads)
    /\ DefaultThenArchive =>
          /\ loads = SelectSeq(ClaimedOrder(cfgOps[2].call.ar), Exists)
          /\ LayeredFrom(SelectSeq(ClaimedOrder(cfgOps[2].call.ar), Exists))

\* Both operations returned, a candidate was missing and skipped, and a key
\* bound by several loaded files has the value of the last of them
C1_Witness ==
    /\ DefaultThenArchive
    /\ \E i \in 1..6 : ~Exists(ClaimedOrder(cfgOps[2].call.ar)[i])
    /\ Cardinality(Binders(loads, "y")) >= 2
    /\ configs["y"] = loads[Len(loads)]
    /\ configs["y"] # loads[1]

(***************************************************************************)
(* C2                                                                      *)
(***************************************************************************)
\* The calls so far: the same URL got the same engine, different URLs got
\* different engines, and each URL asked for was constructed exactly once,
\* its listeners registered once each
EngineHistoryOk ==
    /\ \A i, j \in DOMAIN returned :
          (returned[i].url = returned[j].url)
              <=> (returned[i].engine = returned[j].engine)
    /\ \A i, j \in DOMAIN constructed :
          constructed[i].url = constructed[j].url => i = j
    /\ { constructed[i].url : i \in DOMAIN constructed }
          = { returned[i].url : i \in DOMAIN returned }
    /\ \A i \in DOMAIN returned :
          \E k \in DOMAIN constructed :
              /\ constructed[k] = [url |-> returned[i].url,
                                   engine |-> returned[i].engine]
              /\ k <= i
    /\ \A e \in DOMAIN listeners :
          \A i, j \in DOMAIN listeners[e] :
              listeners[e][i] = listeners[e][j] => i = j

\* A step neither removes nor replaces an entry of the cache
CacheEntriesKept ==
    \A u \in DOMAIN engines : u \in DOMAIN engines' /\ engines'[u] = engines[u]

\* C2: for calls of get_engine made one after another, a URL passed before
\* gets the engine its first call returned, two different URLs get two
\* distinct engines, an engine is constructed (and its listeners registered)
\* only on the first call for a URL, and no cache entry is ever removed or
\* replaced.
C2_OneEnginePerURL == [](EngineHistoryOk) /\ [][CacheEntriesKept]_vars

\* Three calls returned: the first and the third with one URL, the second
\* with another; two engines were constructed
C2_Witness ==
    /\ Len(returned) = 3
    /\ returned[1].url = returned[3].url
    /\ returned[1].engine = returned[3].engine
    /\ returned[2].url # returned[1].url
    /\ returned[2].engine # returned[1].engine
    /\ Len(constructed) = 2

(***************************************************************************)
(* C3                                                                      *)
(***************************************************************************)
\* C3: with get_engine called from several threads, in every interleaving
\* the engine of a URL is constructed at most once and no two callers with
\* the same URL receive different engines.
C3_AtMostOnceUnderThreads ==
    /\ \A i, j \in DOMAIN constructed :
          constructed[i].url = constructed[j].url => i = j
    /\ \A i, j \in DOMAIN returned :
          returned[i].url = returned[j].url
              => returned[i].engine = returned[j].engine

(***************************************************************************)
(* C4                                                                      *)
(***************************************************************************)
\* Every scope has a connection of its own, on which one transaction was
\* begun; the transaction is active while the scope is entered, committed
\* (and nothing else) once the body completed, rolled back (and nothing
\* else) once the body raised
ScopesEndOnce ==
    \A i \in DOMAIN txScopes :
        LET sc == txScopes[i]
            ev == txConns[sc.ctx.conn].events
        IN  /\ \A j \in DOMAIN txScopes :
                  txScopes[j].ctx.conn = sc.ctx.conn => i = j
            /\ sc.left = "no" => ev = <<"begin">>
            /\ sc.left = "normally" => ev = <<"begin", "commit">>
            /\ sc.left = "by error" => ev = <<"begin", "rollback">>
            /\ sc.left = "no" <=> \E k \in DOMAIN txStack : txStack[k] = i

\* A step in which a scope is left by an error leaves the error raised
ErrorPropagates ==
    \A i \in DOMAIN txScopes' :
        ( /\ txScopes'[i].left = "by error"
          /\ (i \notin DOMAIN txScopes \/ txScopes[i].left = "no") )
        => txPending'

\* C4: every scope of Database.transaction() has one connection with exactly
\* one transaction, ended exactly once: committed if the body completes,
\* rolled back if the body raises (the error then propagates); no scope is
\* left with its transaction open, none is committed and rolled back.
C4_CommitOrRollbackOnce == [](ScopesEndOnce) /\ [][ErrorPropagates]_vars

\* One scope was left normally, one by an error, a third is still entered
C4_Witness ==
    /\ \E i \in DOMAIN txScopes :
          /\ txScopes[i].left = "normally"
          /\ txConns[txScopes[i].ctx.conn].events = <<"begin", "commit">>
    /\ \E i \in DOMAIN txScopes :
          /\ txScopes[i].left = "by error"
          /\ txConns[txScopes[i].ctx.conn].events = <<"begin", "rollback">>
    /\ \E i \in DOMAIN txScopes : txScopes[i].left = "no"

(***************************************************************************)
(* C5                                                                      *)
(***************************************************************************)
HasCaseSuffix(key) == EndsWith(key, <<"_", "L">>) \/ EndsWith(key, <<"_", "U">>)

\* The key without its _L or _U
Stem(key) == IF HasCaseSuffix(key) THEN SubSeq(key, 1, Len(key) - 2) ELSE key

\* The value of a column as the key's suffix asks for it
Folded(key, col) ==
    IF EndsWith(key, <<"_", "L">>) THEN Lower(ValueOf(col))
    ELSE IF EndsWith(key, <<"_", "U">>) THEN Upper(ValueOf(col))
    ELSE ValueOf(col)

Columns == Range(rowKeys)

\* The columns whose name starts with the stripped key
Abbreviated == { c \in Columns : StartsWith(c, Stem(rowKey)) }

IsStrictlySorted(l) == \A i, j \in DOMAIN l : i < j => StrLess(l[i], l[j])

\* C5: the lookup strips _L or _U from the key (folding the result to lower
\* or upper case); a column named as the stripped key is returned even when
\* other columns start with it; otherwise the only column starting with it
\* is returned, several such columns raise BadColumnName listing them, and
\* none raises BadColumnName listing all column names sorted.
C5_FancyGetitem ==
    rowResult # NoResult =>
        /\ Stem(rowKey) \in Columns =>
              rowResult = [kind |-> "value",
                           value |-> Folded(rowKey, Stem(rowKey))]
        /\ (Stem(rowKey) \notin Columns /\ Cardinality(Abbreviated) = 1) =>
              \E c \in Abbreviated :
                  rowResult = [kind |-> "value", value |-> Folded(rowKey, c)]
        /\ (Stem(rowKey) \notin Columns /\ Cardinality(Abbreviated) > 1) =>
              /\ rowResult.kind = "BadColumnNameError"
              /\ rowResult.what = "ambiguous"
              /\ Range(rowResult.names) = Abbreviated
              /\ Len(rowResult.names) = Cardinality(Abbreviated)
        /\ Abbreviated = {} =>
              /\ rowResult.kind = "BadColumnNameError"
              /\ rowResult.what = "doesn't exist"
              /\ Range(rowResult.names) = Columns
              /\ IsStrictlySorted(rowResult.names)

\* Key f_U on the columns fg, f: the column f is returned, upper-cased,
\* although fg starts with f too
C5_Witness ==
    /\ rowKeys = << <<"f", "g">>, <<"f">> >>
    /\ rowKey = <<"f", "_", "U">>
    /\ rowResult = [kind |-> "value", value |-> <<"V", "F", "Z">>]

(***************************************************************************)
(* C6                                                                      *)
(***************************************************************************)
\* The receiver the band calls for, "none" where the correction is to fail;
\* the ratio top/bot is compared by cross multiplication, bot being positive
ClaimedReceiver(in) ==
    CASE in.band = "Cband" -> "S60-2"
      [] in.band = "Xband" -> "S36-5"
      [] in.band = "Sband" -> "S110-1"
      [] in.band = "Lband" /\ in.top > 5 * in.bot -> "P200-3"
      [] in.band = "Lband" /\ in.top < 2 * in.bot -> "P217-3"
      [] OTHER -> "none"

\* The fragments a correction string begins with, for a receiver and a backend
ClaimedHead(id, backend) ==
    << Frag("rcvr:name", <<id>>), Frag("rcvr:hand", <<"-1">>),
       Frag("rcvr:basis", <<"cir">>), Frag("be:name", <<backend>>) >>

\* C6: correct_header chooses the receiver from the band alone: Cband gives
\* S60-2, Xband S36-5, Sband S110-1; for Lband a ratio top/bot above 5
\* gives P200-3, one below 2 gives P217-3 and one from 2 to 5, bounds
\* included, raises a HeaderCorrection error; any other band raises a
\* HeaderCorrection error before the editor is invoked.  Whenever a receiver
\* is chosen the correction string begins with the receiver's fragment
\* followed by be:name=<backend>, the backend being asterix unless overridden.
C6_ReceiverFromBand ==
    (corPc = "done" /\ (corIn.band = "Lband" => corIn.bot > 0)) =>
        LET want == ClaimedReceiver(corIn)
            backend == IF corIn.backend = "omitted" THEN "asterix"
                       ELSE corIn.backend
        IN  /\ corOut.rcvr = want
            /\ want = "none" =>
                 /\ corOut.kind = "HeaderCorrectionError"
                 /\ corOut.calls = <<>>
                 /\ corOut.edited = <<>>
            /\ want # "none" =>
                 /\ Len(corOut.corrstr) >= 4
                 /\ SubSeq(corOut.corrstr, 1, 4) = ClaimedHead(want, backend)

\* An L-band archive whose ratio is exactly 5 or exactly 2 was refused
C6_Witness ==
    /\ corPc = "done"
    /\ corIn.band = "Lband"
    /\ corIn.bot > 0
    /\ corIn.top = 5 * corIn.bot \/ corIn.top = 2 * corIn.bot
    /\ corOut.kind = "HeaderCorrectionError"
    /\ corOut.edited = <<>>

(***************************************************************************)
(* C7                                                                      *)
(***************************************************************************)
\* The name starts with a configured flux-calibrator prefix
HasFluxCalPrefix(in) ==
    \E i \in DOMAIN in.fluxcals :
        /\ Len(in.fluxcals[i]) <= Len(in.name)
        /\ \A j \in DOMAIN in.fluxcals[i] : in.name[j] = in.fluxcals[i][j]

\* The fragments of a correction string with a given key
FragsOf(corrstr, key) == SelectSeq(corrstr, LAMBDA f : f.key = key)

\* The correction string passed to the editor sets the type t and no other
TypeIs(t) ==
    /\ corOut.edited = <<corOut.corrstr>>
    /\ FragsOf(corOut.corrstr, "type") = <<Frag("type", <<t>>)>>

\* C7: in the classification of correct_header a name that starts with a
\* configured flux-calibrator prefix and ends with _S_R or _N_R gets
\* type=FluxCal-Off, one with such a prefix that ends with _O_R gets
\* type=FluxCal-On, a name ending in _R with no such prefix gets
\* type=PolnCal, and every name not ending in _R gets type=Pulsar.
C7_Classification ==
    (corPc = "done" /\ corOut.edited # <<>>) =>
        LET name == corIn.name
            flux == HasFluxCalPrefix(corIn)
        IN  /\ (flux /\ (EndsWith(name, S_R) \/ EndsWith(name, N_R)))
                  => TypeIs("FluxCal-Off")
            /\ (flux /\ EndsWith(name, O_R)) => TypeIs("FluxCal-On")
            /\ (EndsWith(name, R_) /\ ~flux) => TypeIs("PolnCal")
            /\ ~EndsWith(name, R_) => TypeIs("Pulsar")

\* A flux calibrator observed on source was classified
C7_Witness ==
    /\ corPc = "done"
    /\ HasFluxCalPrefix(corIn)
    /\ EndsWith(corIn.name, O_R)
    /\ corOut.kind = "returned"
    /\ TypeIs("FluxCal-On")

(***************************************************************************)
(* C8                                                                      *)
(***************************************************************************)
\* get_coordinates was called
CoordsAttempted ==
    \E i \in DOMAIN corOut.calls : corOut.calls[i] = "get_coordinates"

\* What the coordinate computation gives for the inputs of the call
CoordsOutcome ==
    get_coordinates(
        [name |-> corIn.name, date |-> corIn.date, sec |-> corIn.sec],
        corIn.obsinfo, corIn.logs, corIn.sky)

\* The note ends with the pieces given
NoteEndsWith(pieces) ==
    /\ Len(corOut.note) >= Len(pieces)
    /\ SubSeq(corOut.note, Len(corOut.note) - Len(pieces) + 1, Len(corOut.note))
         = pieces

\* C8: once the receiver is chosen, the coordinate computation is attempted
\* if and only if observing-log information was supplied, or the name ends
\* with _R, or the recorded right ascension starts with 00:00:00.  When it
\* is not attempted the note gains "No reason to correct coords." and the
\* correction string has no coord fragment.  When it is attempted and
\* raises a HeaderCorrection error, the message and "\n(Could not correct
\* coordinates)" are appended to the note, no coord fragment is appended and
\* the correction goes on through the classification and the editor.  The
\* correction string has coord=<ra><dec> exactly when the attempt was made
\* and succeeded.
C8_CoordinateAttempt ==
    (corPc = "done" /\ corOut.rcvr # "none") =>
        LET coords == FragsOf(corOut.corrstr, "coord")
        IN  /\ CoordsAttempted <=>
                 \/ corIn.obsinfo # None
                 \/ EndsWith(corIn.name, R_)
                 \/ StartsWith(corIn.ra, RaUnset)
            /\ ~CoordsAttempted =>
                 /\ NoteEndsWith(<<"No reason to correct coords.">>)
                 /\ coords = <<>>
            /\ (CoordsAttempted /\ CoordsOutcome.kind = "HeaderCorrectionError") =>
                 /\ NoteEndsWith(<<CoordsOutcome.why,
                                   "\n(Could not correct coordinates)">>)
                 /\ coords = <<>>
                 /\ corOut.calls = <<"get_coordinates", "psredit">>
                 /\ corOut.edited = <<corOut.corrstr>>
                 /\ FragsOf(corOut.corrstr, "type")
                      = Classify(corIn.name, corIn.fluxcals)
                 /\ corIn.editorWrites => corOut.kind = "returned"
            /\ coords # <<>> <=> (CoordsAttempted /\ CoordsOutcome.kind = "coords")
            /\ coords # <<>> =>
                 coords = <<Frag("coord",
                                 CoordsOutcome.rastr \o CoordsOutcome.decstr)>>

\* The search of the logs failed for a calibration scan, and the archive was
\* corrected all the same
C8_Witness ==
    /\ corPc = "done"
    /\ corIn.obsinfo = None
    /\ EndsWith(corIn.name, R_)
    /\ CoordsAttempted
    /\ CoordsOutcome.kind = "HeaderCorrectionError"
    /\ NoteEndsWith(<<"Bad number of entries",
                      "\n(Could not correct coordinates)">>)
    /\ corOut.kind = "returned"

(***************************************************************************)
(* C9                                                                      *)
(***************************************************************************)
\* A step that parses a valid entry
EntryStep == olPc = "scan" /\ olLines' = olLines + 1 /\ olLast' = "entry"

\* A step that parses a valid entry while the flag is armed; the entry
\* parsed is previnfo after the step
ArmedEntryStep == EntryStep /\ check

Recorded == logentries' = Append(logentries, previnfo)

NotRecorded == logentries' = logentries

DateBetween == olArf.date >= previnfo.localdate /\ olArf.date <= previnfo'.localdate

\* a and b are at most one minute apart
WithinOneMinute(a, b) == a - b <= 60 /\ b - a <= 60

\* a and b are exactly one minute apart, where the floats may round
\* either way
AtOneMinute(a, b) == a - b = 60 \/ b - a = 60

\* C9 as claimed: when armed, the previous entry is recorded exactly when
\* the target date lies between the two entries' dates and the target time
\* is within one minute of the previous entry's start and within one minute
\* of the current entry's start (times exactly one minute off left open).
C9_WithinOneMinuteOfBoth ==
    [][ ( /\ ArmedEntryStep
          /\ ~AtOneMinute(olArf.sec, previnfo.utcstart)
          /\ ~AtOneMinute(olArf.sec, previnfo'.utcstart) )
        => IF /\ DateBetween
              /\ WithinOneMinute(olArf.sec, previnfo.utcstart)
              /\ WithinOneMinute(olArf.sec, previnfo'.utcstart)
           THEN Recorded ELSE NotRecorded ]_vars

\* C9 as amended: when armed, the previous entry is recorded if the target
\* date lies between the two entries' dates and the target time is later
\* than one minute before the previous entry's start and earlier than one
\* minute after the current entry's start; it is not recorded if the date
\* lies outside, or the time is more than a minute before the previous
\* entry's start or more than a minute after the current entry's start.
C9_BracketWithTolerance ==
    [][ ArmedEntryStep =>
          /\ ( /\ DateBetween
               /\ olArf.sec > previnfo.utcstart - 60
               /\ olArf.sec < previnfo'.utcstart + 60 ) => Recorded
          /\ ( \/ ~DateBetween
               \/ olArf.sec < previnfo.utcstart - 60
               \/ olArf.sec > previnfo'.utcstart + 60 ) => NotRecorded
          /\ Recorded \/ NotRecorded ]_vars

\* An entry that starts 59 seconds after the target time was recorded when
\* the next entry, which starts 61 seconds after it, was parsed
C9_Witness ==
    /\ olLines = 2
    /\ logentries # <<>>
    /\ logentries[1].utcstart = olArf.sec + 59
    /\ previnfo # Unbound
    /\ previnfo.utcstart = olArf.sec + 61

(***************************************************************************)
(* C10                                                                     *)
(***************************************************************************)
\* The candidates have the target's name once normalized; the search
\* returns an entry only if it is the one candidate, and ends its scan with
\* an error if the candidates are none or several
CandidatesOk ==
    /\ \A i \in DOMAIN logentries :
          get_prefname(logentries[i].name) = olArf.name
    /\ olOutcome.kind = "found" =>
          Len(logentries) = 1 /\ olOutcome.entry = logentries[1]
    /\ (olPc = "done" /\ olLast = "end of file" /\ Len(logentries) # 1) =>
          olOutcome.kind = "HeaderCorrectionError"
    /\ (olPc = "done" /\ tosearch = <<>>) =>
          olOutcome.kind = "HeaderCorrectionError"

\* The steps of the two-state machine
MachineStep ==
    /\ EntryStep =>
          (check' <=> get_prefname(previnfo'.name) = olArf.name)
    /\ (olPc = "scan" /\ olLast' = "FormatError" /\ olLines' = olLines + 1) =>
          /\ check' = check
          /\ previnfo' = previnfo
          /\ logentries' = logentries
          /\ olPc' = "scan"
    /\ olFile' # olFile =>
          /\ check' = check
          /\ previnfo' = previnfo
          /\ logentries' = logentries
    /\ logentries' # logentries =>
          /\ ArmedEntryStep
          /\ Recorded
          /\ previnfo'.kind = "entry"

\* C10: the scan is a two-state machine: after a valid entry the flag is
\* armed iff the entry's normalized name is the target's; a line with too
\* few fields changes neither the flag nor the previous entry; both carry
\* over to the next file; an entry is recorded only when the next valid
\* entry is parsed while armed.  So every candidate bears the target's name
\* and the search returns an entry only if it is the only candidate, and
\* raises HeaderCorrectionError with none or several.
C10_TwoStateScan == [](CandidatesOk) /\ [][MachineStep]_vars

\* Two files were scanned, the flag and the previous entry of the first
\* file were used in the second, and the one candidate was returned
C10_Witness ==
    /\ olPc = "done"
    /\ Len(tosearch) = 2
    /\ olFile = 2
    /\ olOutcome.kind = "found"
    /\ olOutcome.entry.name = <<"B">>
    /\ olArf.name = <<"J">>
    /\ olLines = 3

(***************************************************************************)
(* C11                                                                     *)
(***************************************************************************)
\* The identifier of a configuration file: its name without the extension
FileStem(p) == SubSeq(p.base, 1, Len(p.base) - Len(CfgExt))

\* No path was loaded twice
DistinctLoads == \A i, j \in DOMAIN loads : loads[i] = loads[j] => i = j

\* C11: the identifiers of the loaded files are unique: after read_file
\* calls on distinct paths, those of get_default_configs and
\* get_configs_for_archive included, every loaded file has its own entry of
\* the per-file mapping, keyed by its filename stem and holding exactly the
\* bindings of that file, and no load has replaced the entry of another file.
C11_UniqueIdentifiers ==
    DistinctLoads =>
        /\ \A i, j \in DOMAIN loads :
              FileStem(loads[i]) = FileStem(loads[j]) => i = j
        /\ \A i \in DOMAIN loads :
              /\ FileStem(loads[i]) \in DOMAIN config_dicts
              /\ config_dicts[FileStem(loads[i])] = FileBindings(loads[i])

(***************************************************************************)
(* C12                                                                     *)
(***************************************************************************)
\* The name is that of a flux calibrator with the diode fired, and has none
\* of the suffixes the classification knows
SilentCase ==
    /\ EndsWith(corIn.name, R_)
    /\ HasFluxCalPrefix(corIn)
    /\ ~EndsWith(corIn.name, S_R)
    /\ ~EndsWith(corIn.name, N_R)
    /\ ~EndsWith(corIn.name, O_R)

\* The pieces the receiver and the coordinates put into a note
OtherNotePieces ==
    { "Receiver is wrong", "P217-3", "S110-1", "P200-3", "S60-2", "S36-5",
      "No reason to correct coords.", "Could not find an obslog file",
      "Bad number of entries", "\n(Could not correct coordinates)" }

\* C12: every correction string correct_header passes to the editor has at
\* most one type fragment, placed last, and has none exactly when the name
\* ends with _R, starts with a configured flux-calibrator prefix and ends
\* with none of _S_R, _N_R, _O_R; the file is then edited and, the editor
\* having written it, returned with no type set and with no note or error
\* about the missing type.
C12_AtMostOneTypeLast ==
    corPc = "done" =>
        \A i \in DOMAIN corOut.edited :
            LET cs == corOut.edited[i]
                types == FragsOf(cs, "type")
            IN  /\ Len(types) <= 1
                /\ types # <<>> => cs[Len(cs)].key = "type"
                /\ types = <<>> <=> SilentCase
                /\ SilentCase =>
                     /\ corOut.corrstr = cs
                     /\ corIn.editorWrites => corOut.kind = "returned"
                     /\ ~corIn.editorWrites =>
                          /\ corOut.kind = "HeaderCorrectionError"
                          /\ corOut.why = "The corrected file does not exist!"
                     /\ \A j \in DOMAIN corOut.note :
                          corOut.note[j] \in OtherNotePieces

\* A flux calibrator with an unknown suffix was edited and returned with no
\* type in the correction string
C12_Witness ==
    /\ corPc = "done"
    /\ SilentCase
    /\ corOut.kind = "returned"
    /\ corOut.edited = <<corOut.corrstr>>
    /\ FragsOf(corOut.corrstr, "type") = <<>>

=============================================================================
